---- MODULE Spec2Model ----
(***************************************************************************)
(* Model of libs/go/p4lib/p4_cgo_bridge.cc: the pool of idle Perforce     *)
(* clients (class Pool, defaultPool and tagPool), the callback adapter     *)
(* (class ClientCb) and the retry loop of p4runcb.                         *)
(*                                                                         *)
(* A ClientApi object is a record of sess; its index is its identity (the  *)
(* pointer).  clients[p] is the deque Pool::clients_ of pool p.  Each      *)
(* thread is one caller of p4runcb; pc[t] is its position in p4runcb.      *)
(* A byte string whose bytes matter (the packed argument buffer) is a      *)
(* sequence of one-character strings; other texts are atoms.               *)
(***************************************************************************)
EXTENDS Integers, Sequences, FiniteSets, TLC

\* ------------------------------------------------------------------ bounds
\* Number of threads calling p4runcb that the model follows step by step.
NumThreads == 2
\* Calls of p4runcb the threads make in all.
MaxCalls == 2
\* Connections the backend drops in all.
MaxDrops == 1
\* Leases held, in the initial state, by callers the model does not follow.
MaxOthers == 1
\* Key/value pairs of a StrDict handed to OutputStat.
MaxPairs == 3

\* ------------------------------------------------------- program constants
kMaxClients == 16

Threads == 1..NumThreads
PoolNames == {"defaultPool", "tagPool"}
PoolOf(tag) == IF tag THEN "tagPool" ELSE "defaultPool"

\* The user and password a ClientApi has after Init (from the environment).
EnvUser == "p4user"
EnvPasswd == "p4passwd"

\* nullptr
NoClient == 0

\* The holder of a mutex nobody holds.
NoThread == 0

VARIABLES
  clients,      \* Pool::clients_ of each pool: a sequence of client ids
  sess,         \* every ClientApi ever constructed, by id
  others,       \* ids leased to callers the model does not follow
  mu,           \* Pool::mu_ of each pool: the thread holding it (NoThread: free)
  pc,           \* each thread's position in p4runcb
  desc,         \* each thread's arguments of p4runcb
  c,            \* each thread's shared_ptr c (NoClient: none)
  orig,         \* each thread's <<origUser, origPasswd>>
  init_us,      \* each thread's init_us
  events,       \* the gop4api* calls of each thread's current call, in order
  hist,         \* bookkeeping of each thread's current call (not program state)
  calls,        \* p4runcb calls each thread has started
  statIn,       \* a StrDict handed to ClientCb::OutputStat
  statOut       \* the gop4apiOutputStat calls made for statIn

vars == <<clients, sess, others, mu, pc, desc, c, orig, init_us, events, hist,
          calls, statIn, statOut>>
poolVars == <<clients, sess, others, mu>>
statVars == <<statIn, statOut>>

\* ------------------------------------------------ ClientCb (lines 113-174)
\* One call of an exported Go function gop4api*: what the caller observes.
Event(type, cbid, level, keys, vals) ==
  [type |-> type, cbid |-> cbid, level |-> level, count |-> Len(keys),
   keys |-> keys, vals |-> vals]

\* An Error object: Test() and the text Fmt() gives.
NoError == [test |-> FALSE, fmt |-> ""]
ErrorOf(text) == [test |-> TRUE, fmt |-> text]

\* The character code of '0'.
CharZero == 48

\* P4Tag::v_specFormatted
v_specFormatted == "specFormatted"

\* ClientCb::HandleError(Error*): forwards only an error that tests true.
HandleError(cbid, err) ==
  IF err.test THEN <<Event("error", cbid, 0, <<>>, <<err.fmt>>)>> ELSE <<>>

\* ClientCb::HandleError(const std::string&): msg is a sequence of fragments.
HandleErrorMsg(cbid, msg) == <<Event("error", cbid, 0, <<>>, msg)>>

\* ClientCb::Retry(context, Error*): err may be a null pointer (NoError's text).
Retry(cbid, context, err) ==
  <<Event("retry", cbid, 0, <<context>>, <<IF err.test THEN err.fmt ELSE "">>)>>

OutputBinary(cbid, data) == <<Event("binary", cbid, 0, <<>>, <<data>>)>>
OutputText(cbid, data) == <<Event("text", cbid, 0, <<>>, <<data>>)>>

\* ClientCb::OutputInfo forwarding no correlation id.
OutputInfoNoCbid(cbid, level, data) ==
  <<Event("info", 0, level - CharZero, <<>>, <<data>>)>>

\* ClientCb::OutputInfo: level is a character, forwarded as level - '0'.
OutputInfo(cbid, level, data) ==
  <<Event("info", cbid, level - CharZero, <<>>, <<data>>)>>

\* StatLoop skipping "func" only.
RECURSIVE StatLoopFuncOnly(_, _, _, _)
StatLoopFuncOnly(varList, i, keys, values) ==
  IF i > Len(varList) THEN <<keys, values>>
  ELSE LET var == varList[i][1]
           val == varList[i][2]
       IN IF var = "func"
          THEN StatLoopFuncOnly(varList, i + 1, keys, values)
          ELSE StatLoopFuncOnly(varList, i + 1, Append(keys, var), Append(values, val))

\* The loop of ClientCb::OutputStat over varList->GetVar(i, var, val):
\* varList is a sequence of <<var, val>>, i counts from 1.
RECURSIVE StatLoop(_, _, _, _)
StatLoop(varList, i, keys, values) ==
  IF i > Len(varList) THEN <<keys, values>>
  ELSE LET var == varList[i][1]
           val == varList[i][2]
       IN IF var = "func" \/ var = v_specFormatted
          THEN StatLoop(varList, i + 1, keys, values)
          ELSE StatLoop(varList, i + 1, Append(keys, var), Append(values, val))

\* ClientCb::OutputStat: one gop4apiOutputStat(cbid, keys.size(), keys, values).
OutputStat(cbid, varList) ==
  LET kv == StatLoop(varList, 1, <<>>, <<>>)
  IN <<[type |-> "stat", cbid |-> cbid, level |-> 0, count |-> Len(kv[1]),
        keys |-> kv[1], vals |-> kv[2]]>>

\* One call the backend makes on the ClientUser while a command runs.
Callback(cb, level, text, dict) ==
  [cb |-> cb, level |-> level, text |-> text, dict |-> dict]

\* The virtual dispatch of a ClientUser callback to ClientCb's override.
Dispatch(cbid, call) ==
  CASE call.cb = "HandleError" -> HandleError(cbid, ErrorOf(call.text))
    [] call.cb = "OutputBinary" -> OutputBinary(cbid, call.text)
    [] call.cb = "OutputText" -> OutputText(cbid, call.text)
    [] call.cb = "OutputInfo" -> OutputInfo(cbid, call.level, call.text)
    [] call.cb = "OutputStat" -> OutputStat(cbid, call.dict)

RECURSIVE DispatchAll(_, _)
DispatchAll(cbid, callSeq) ==
  IF callSeq = <<>> THEN <<>>
  ELSE Dispatch(cbid, Head(callSeq)) \o DispatchAll(cbid, Tail(callSeq))

\* --------------------------------------------------- the backend (p4 API)
\* NewClient without the SetProtocol of the pool (TagPool's override lost).
NewClientNoProtocol(p) ==
  [state |-> "live", charset |-> "utf8", protocol |-> "",
   user |-> EnvUser, passwd |-> EnvPasswd,
   vars |-> <<>>, dropped |-> FALSE, final |-> FALSE]

\* ClientApi after its constructor, SetCharset("utf8") and the pool's
\* SetProtocol (Pool: nothing, TagPool: SetProtocol("tag", "")).
NewClient(p) ==
  [state |-> "live", charset |-> "utf8",
   protocol |-> IF p = "tagPool" THEN "tag" ELSE "",
   user |-> EnvUser, passwd |-> EnvPasswd,
   vars |-> <<>>, dropped |-> FALSE, final |-> FALSE]

\* The callbacks a command makes when it runs to its end on a connection
\* that stays up.
BackendOutput(cmd, tag) ==
  CASE cmd = "info" ->
         IF tag
         THEN <<Callback("OutputStat", 0, "",
                         <<<<"func", "client-FstatInfo">>, <<"userName", "bob">>>>)>>
         ELSE <<Callback("OutputInfo", CharZero + 1, "User name: bob", <<>>)>>
    [] cmd = "sync" ->
         <<Callback("OutputText", 0, "//depot/a#1", <<>>),
           Callback("HandleError", 0, "no such file(s)", <<>>)>>
    [] cmd = "print" ->
         <<Callback("OutputBinary", 0, "bytes", <<>>)>>

\* --------------------------------------------------------------- p4runcb
\* The arguments of one call: strviews cmd, user, passwd, input, joined; the
\* length table argv (argc is its length); cbid; tag.
Descriptor(cmd, user, passwd, joined, argv, cbid, tag) ==
  [cmd |-> cmd, user |-> user, passwd |-> passwd, input |-> "",
   joined |-> joined, argv |-> argv, argc |-> Len(argv), cbid |-> cbid,
   tag |-> tag]

NoDescriptor == Descriptor("", "", "", <<>>, <<>>, 0, FALSE)

\* HasOverride with || for &&: either string non-empty.
HasOverrideEither(d) == d.user # "" \/ d.passwd # ""

\* Line 195 and line 212: both strings non-empty.
HasOverride(d) == d.user # "" /\ d.passwd # ""

\* The loop of lines 203-208: the values of the SetVar(StrRef::Null(), ...)
\* calls from the i-th argument on, next being the offset into joined.
\* SetArgs without next += args[i]: every argument read at offset 0.
RECURSIVE SetArgsNoAdvance(_, _, _, _)
SetArgsNoAdvance(joined, argv, i, next) ==
  IF i >= Len(argv) THEN <<>>
  ELSE <<SubSeq(joined, next + 1, next + argv[i + 1])>>
       \o SetArgsNoAdvance(joined, argv, i + 1, next)

RECURSIVE SetArgs(_, _, _, _)
SetArgs(joined, argv, i, next) ==
  IF i >= Len(argv) THEN <<>>
  ELSE <<SubSeq(joined, next + 1, next + argv[i + 1])>>
       \o SetArgs(joined, argv, i + 1, next + argv[i + 1])

\* Bookkeeping of one call: connections dropped, acquisitions made, how the
\* call ended, the client of the latest lease, whether that client was newly
\* constructed, the <<user, password>> it had when the lease began, the
\* executions of c->Run, the elapsed time of each client constructed, the
\* calls of c->Final that left an error, and every client leased.
NoHist == [drops |-> 0, acqs |-> 0, outcome |-> "none", last |-> NoClient,
           fresh |-> FALSE, creds |-> <<"", "">>, runs |-> 0, built |-> <<>>,
           finalErrs |-> 0, leased |-> {}]

\* What the bounds count: the calls started, the connections dropped.
RECURSIVE SumCalls(_)
SumCalls(T) ==
  IF T = {} THEN 0
  ELSE LET t == CHOOSE x \in T : TRUE IN calls[t] + SumCalls(T \ {t})
TotalCalls == SumCalls(Threads)
TotalDrops == Cardinality({i \in DOMAIN sess : sess[i].dropped})

\* Entry of p4runcb (lines 179-184): cb, the strings, init_us = 0, the pool.
Call(t, D) ==
  /\ pc[t] = "idle"
  /\ TotalCalls < MaxCalls
  /\ \E d \in D :
       /\ d.cbid = t
       /\ desc' = [desc EXCEPT ![t] = d]
  /\ pc' = [pc EXCEPT ![t] = "acquire"]
  /\ calls' = [calls EXCEPT ![t] = @ + 1]
  /\ init_us' = [init_us EXCEPT ![t] = 0]
  /\ events' = [events EXCEPT ![t] = <<>>]
  /\ hist' = [hist EXCEPT ![t] = NoHist]
  /\ orig' = [orig EXCEPT ![t] = <<"", "">>]
  /\ UNCHANGED <<poolVars, c, statVars>>

\* ClientPop taking the back of clients_ (back and pop_back).
ClientPopBack(t) ==
  LET p == PoolOf(desc[t].tag)
      s == clients[p][Len(clients[p])]
  IN /\ pc[t] = "acquire"
     /\ mu[p] = NoThread
     /\ clients[p] # <<>>
     /\ c' = [c EXCEPT ![t] = s]
     /\ clients' = [clients EXCEPT ![p] = SubSeq(@, 1, Len(@) - 1)]
     /\ pc' = [pc EXCEPT ![t] = "leased"]
     /\ hist' = [hist EXCEPT ![t].acqs = @ + 1, ![t].last = s,
                             ![t].fresh = FALSE,
                             ![t].leased = @ \cup {s},
                             ![t].creds = <<sess[s].user, sess[s].passwd>>]
     /\ UNCHANGED <<sess, others, mu, desc, orig, init_us, events, calls, statVars>>

\* ClientPop without the pop_front of line 40.
ClientPopNoRemove(t) ==
  LET p == PoolOf(desc[t].tag)
  IN /\ pc[t] = "acquire"
     /\ mu[p] = NoThread
     /\ clients[p] # <<>>
     /\ c' = [c EXCEPT ![t] = Head(clients[p])]
     /\ pc' = [pc EXCEPT ![t] = "leased"]
     /\ hist' = [hist EXCEPT ![t].acqs = @ + 1, ![t].last = Head(clients[p]),
                             ![t].fresh = FALSE,
                             ![t].leased = @ \cup {Head(clients[p])},
                             ![t].creds = <<sess[Head(clients[p])].user,
                                            sess[Head(clients[p])].passwd>>]
     /\ UNCHANGED <<poolVars, desc, orig, init_us, events, calls, statVars>>

\* Pool::Client, the locked block of lines 36-42 when clients_ is not empty,
\* and the return of line 78 (fresh stays false).
ClientPop(t) ==
  LET p == PoolOf(desc[t].tag)
  IN /\ pc[t] = "acquire"
     /\ mu[p] = NoThread
     /\ clients[p] # <<>>
     /\ c' = [c EXCEPT ![t] = Head(clients[p])]
     /\ clients' = [clients EXCEPT ![p] = Tail(@)]
     /\ pc' = [pc EXCEPT ![t] = "leased"]
     /\ hist' = [hist EXCEPT ![t].acqs = @ + 1, ![t].last = Head(clients[p]),
                             ![t].fresh = FALSE,
                             ![t].leased = @ \cup {Head(clients[p])},
                             ![t].creds = <<sess[Head(clients[p])].user,
                                            sess[Head(clients[p])].passwd>>]
     /\ UNCHANGED <<sess, others, mu, desc, orig, init_us, events, calls, statVars>>

\* ClientEmpty waiting for a client to be returned instead of going on to
\* construct one.
ClientEmptyWait(t) ==
  /\ pc[t] = "acquire"
  /\ mu[PoolOf(desc[t].tag)] = NoThread
  /\ clients[PoolOf(desc[t].tag)] = <<>>
  /\ UNCHANGED vars

\* Pool::Client, the locked block of lines 36-42 when clients_ is empty: the
\* lock is given up with client still null.
ClientEmpty(t) ==
  /\ pc[t] = "acquire"
  /\ mu[PoolOf(desc[t].tag)] = NoThread
  /\ clients[PoolOf(desc[t].tag)] = <<>>
  /\ pc' = [pc EXCEPT ![t] = "init"]
  /\ UNCHANGED <<poolVars, desc, c, orig, init_us, events, hist, calls, statVars>>

\* ClientInitOk storing the elapsed time in *ns instead of adding it.
ClientInitOkAssign(t, E) ==
  LET p == PoolOf(desc[t].tag)
      id == Len(sess) + 1
  IN /\ pc[t] = "init"
     /\ sess' = Append(sess, NewClient(p))
     /\ c' = [c EXCEPT ![t] = id]
     /\ \E us \in E :
          /\ init_us' = [init_us EXCEPT ![t] = us]
          /\ hist' = [hist EXCEPT ![t].acqs = @ + 1, ![t].last = id,
                                  ![t].fresh = TRUE,
                                  ![t].creds = <<EnvUser, EnvPasswd>>,
                                  ![t].built = Append(@, us),
                                  ![t].leased = @ \cup {id}]
     /\ pc' = [pc EXCEPT ![t] = "leased"]
     /\ UNCHANGED <<clients, others, mu, desc, orig, events, calls, statVars>>

\* Pool::Client, lines 43-68 and 78, Init succeeding: a new client, fresh set,
\* the elapsed time added to *ns.
ClientInitOk(t, E) ==
  LET p == PoolOf(desc[t].tag)
      id == Len(sess) + 1
  IN /\ pc[t] = "init"
     /\ sess' = Append(sess, NewClient(p))
     /\ c' = [c EXCEPT ![t] = id]
     /\ \E us \in E :
          /\ init_us' = [init_us EXCEPT ![t] = @ + us]
          /\ hist' = [hist EXCEPT ![t].acqs = @ + 1, ![t].last = id,
                                  ![t].fresh = TRUE,
                                  ![t].creds = <<EnvUser, EnvPasswd>>,
                                  ![t].built = Append(@, us),
                                  ![t].leased = @ \cup {id}]
     /\ pc' = [pc EXCEPT ![t] = "leased"]
     /\ UNCHANGED <<clients, others, mu, desc, orig, events, calls, statVars>>

\* The text of the Error a failed Init leaves.
InitErrorText == "Connect to server failed"

\* ClientInitFail going round the loop again instead of returning.
ClientInitFailRetry(t) ==
  /\ pc[t] = "init"
  /\ events' = [events EXCEPT ![t] =
       @ \o HandleErrorMsg(desc[t].cbid, <<"error initializing client: ", InitErrorText>>)]
  /\ pc' = [pc EXCEPT ![t] = "acquire"]
  /\ hist' = [hist EXCEPT ![t].acqs = @ + 1, ![t].outcome = "acqfail",
                          ![t].fresh = FALSE]
  /\ UNCHANGED <<poolVars, desc, c, orig, init_us, calls, statVars>>

\* Pool::Client, lines 43-61, Init failing: *error is set and nullptr is
\* returned; p4runcb lines 189-192: cb.HandleError(errmsg) and return.
ClientInitFail(t) ==
  /\ pc[t] = "init"
  /\ events' = [events EXCEPT ![t] =
       @ \o HandleErrorMsg(desc[t].cbid, <<"error initializing client: ", InitErrorText>>)]
  /\ pc' = [pc EXCEPT ![t] = "idle"]
  /\ hist' = [hist EXCEPT ![t].acqs = @ + 1, ![t].outcome = "acqfail",
                          ![t].fresh = FALSE]
  /\ UNCHANGED <<poolVars, desc, c, orig, init_us, calls, statVars>>

\* Lines 193-200: the client after the override of user and password.
Overridden(client, d) ==
  IF HasOverride(d)
  THEN [client EXCEPT !.user = d.user, !.passwd = d.passwd]
  ELSE client

\* Lines 193-208: capture and override the credentials, set the arguments.
Setup(t) ==
  LET d == desc[t]
      id == c[t]
  IN /\ pc[t] = "leased"
     /\ orig' = [orig EXCEPT ![t] =
          IF HasOverride(d) THEN <<sess[id].user, sess[id].passwd>> ELSE <<"", "">>]
     /\ sess' = [sess EXCEPT ![id] =
          LET o == Overridden(sess[id], d)
          IN [o EXCEPT !.vars = o.vars \o SetArgs(d.joined, d.argv, 0, 0)]]
     /\ pc' = [pc EXCEPT ![t] = "run"]
     /\ UNCHANGED <<clients, others, mu, desc, c, init_us, events, hist, calls, statVars>>

\* Line 209, c->Run(cmd, &cb) on a connection that stays up: every callback
\* of the command is made; the variables set for the command are used up.
RunOk(t) ==
  LET d == desc[t]
  IN /\ pc[t] = "run"
     /\ events' = [events EXCEPT ![t] =
          @ \o DispatchAll(d.cbid, BackendOutput(d.cmd, d.tag))]
     /\ sess' = [sess EXCEPT ![c[t]].vars = <<>>]
     /\ hist' = [hist EXCEPT ![t].runs = @ + 1]
     /\ pc' = [pc EXCEPT ![t] = "ran"]
     /\ UNCHANGED <<clients, others, mu, desc, c, orig, init_us, calls, statVars>>

\* Line 209, c->Run(cmd, &cb) on a connection the backend drops after the
\* first k callbacks of the command: Dropped() is true from then on.
RunDrop(t, K) ==
  LET d == desc[t]
      out == BackendOutput(d.cmd, d.tag)
  IN /\ pc[t] = "run"
     /\ TotalDrops < MaxDrops
     /\ \E k \in (0..Len(out)) \cap K :
          events' = [events EXCEPT ![t] =
            @ \o DispatchAll(d.cbid, SubSeq(out, 1, k))]
     /\ sess' = [sess EXCEPT ![c[t]].vars = <<>>, ![c[t]].dropped = TRUE]
     /\ hist' = [hist EXCEPT ![t].drops = @ + 1, ![t].runs = @ + 1]
     /\ pc' = [pc EXCEPT ![t] = "ran"]
     /\ UNCHANGED <<clients, others, mu, desc, c, orig, init_us, calls, statVars>>

\* Restored without the SetUser and SetPassword of lines 214-215.
RestoredNothing(client, d, o) == client

\* Lines 212-216: the client with the captured user and password set again.
Restored(client, d, o) ==
  IF HasOverride(d)
  THEN [client EXCEPT !.user = o[1], !.passwd = o[2]]
  ELSE client

\* NotDropped going round the loop again (no break at line 217).
NotDroppedContinue(t) ==
  /\ pc[t] = "ran"
  /\ ~sess[c[t]].dropped
  /\ sess' = [sess EXCEPT ![c[t]] = Restored(@, desc[t], orig[t])]
  /\ hist' = [hist EXCEPT ![t].outcome = "ok"]
  /\ pc' = [pc EXCEPT ![t] = "discard"]
  /\ UNCHANGED <<clients, others, mu, desc, c, orig, init_us, events, calls, statVars>>

\* Lines 211-218, the client not dropped: restore and break.
NotDropped(t) ==
  /\ pc[t] = "ran"
  /\ ~sess[c[t]].dropped
  /\ sess' = [sess EXCEPT ![c[t]] = Restored(@, desc[t], orig[t])]
  /\ hist' = [hist EXCEPT ![t].outcome = "ok"]
  /\ pc' = [pc EXCEPT ![t] = "release"]
  /\ UNCHANGED <<clients, others, mu, desc, c, orig, init_us, events, calls, statVars>>

\* The text of the Error a failed Final leaves.
FinalErrorText == "TCP receive failed"

\* DropNotice reporting the error of Final as an error event.
DropNoticeAsError(cbid, err) == HandleError(cbid, err)

\* Lines 220-224: what p4runcb reports after c->Final(&err).
DropNotice(cbid, err) ==
  IF err.test THEN Retry(cbid, "p4 connection dropped: ", err) ELSE <<>>

\* Lines 211 and 220-224, the client dropped: Final, then the retry notice.
Dropped(t, F) ==
  /\ pc[t] = "ran"
  /\ sess[c[t]].dropped
  /\ sess' = [sess EXCEPT ![c[t]].final = TRUE]
  /\ \E err \in F :
       /\ events' = [events EXCEPT ![t] = @ \o DropNotice(desc[t].cbid, err)]
       /\ hist' = [hist EXCEPT ![t].finalErrs = @ + (IF err.test THEN 1 ELSE 0)]
  /\ pc' = [pc EXCEPT ![t] = "discard"]
  /\ UNCHANGED <<clients, others, mu, desc, c, orig, init_us, calls, statVars>>

\* Deleter with the capacity test off by one (<= for <).
DeleterOffByOne(p, s) ==
  IF ~sess[s].dropped /\ Len(clients[p]) <= kMaxClients
  THEN /\ clients' = [clients EXCEPT ![p] = Append(@, s)]
       /\ sess' = sess
  ELSE /\ clients' = clients
       /\ sess' = [sess EXCEPT ![s].state = "deleted"]

\* Deleter without the test of Dropped().
DeleterNoDropTest(p, s) ==
  IF Len(clients[p]) < kMaxClients
  THEN /\ clients' = [clients EXCEPT ![p] = Append(@, s)]
       /\ sess' = sess
  ELSE /\ clients' = clients
       /\ sess' = [sess EXCEPT ![s].state = "deleted"]

\* Deleter with push_front for push_back.
DeleterPushFront(p, s) ==
  IF ~sess[s].dropped /\ Len(clients[p]) < kMaxClients
  THEN /\ clients' = [clients EXCEPT ![p] = <<s>> \o @]
       /\ sess' = sess
  ELSE /\ clients' = clients
       /\ sess' = [sess EXCEPT ![s].state = "deleted"]

\* The deleter of the shared_ptr (lines 70-77), run under mu_ of pool p on
\* client s when the last reference goes.
Deleter(p, s) ==
  IF ~sess[s].dropped /\ Len(clients[p]) < kMaxClients
  THEN /\ clients' = [clients EXCEPT ![p] = Append(@, s)]
       /\ sess' = sess
  ELSE /\ clients' = clients
       /\ sess' = [sess EXCEPT ![s].state = "deleted"]

\* c goes out of scope (after the break of line 217, or at the end of the
\* loop body, line 225): the deleter starts and takes mu_ (line 71).
DeleterLock(t) ==
  LET p == PoolOf(desc[t].tag)
  IN /\ pc[t] \in {"release", "discard"}
     /\ mu[p] = NoThread
     /\ mu' = [mu EXCEPT ![p] = t]
     /\ pc' = [pc EXCEPT ![t] = IF pc[t] = "release" THEN "deleterReturn"
                                                     ELSE "deleterRetry"]
     /\ UNCHANGED <<clients, sess, others, desc, c, orig, init_us, events, hist,
                    calls, statVars>>

\* ReleaseReturn with the client neither queued nor deleted (a reference to
\* it is left behind and the deleter's body does not run).
ReleaseReturnLeak(t) ==
  LET p == PoolOf(desc[t].tag)
  IN /\ pc[t] = "deleterReturn"
     /\ mu' = [mu EXCEPT ![p] = NoThread]
     /\ c' = [c EXCEPT ![t] = NoClient]
     /\ pc' = [pc EXCEPT ![t] = "idle"]
     /\ UNCHANGED <<clients, sess, others, desc, orig, init_us, events, hist,
                    calls, statVars>>

\* After the break of line 217: the deleter's body (lines 72-76) under mu_,
\* mu_ given up, and p4runcb returns (line 226).
ReleaseReturn(t) ==
  LET p == PoolOf(desc[t].tag)
  IN /\ pc[t] = "deleterReturn"
     /\ Deleter(p, c[t])
     /\ mu' = [mu EXCEPT ![p] = NoThread]
     /\ c' = [c EXCEPT ![t] = NoClient]
     /\ pc' = [pc EXCEPT ![t] = "idle"]
     /\ UNCHANGED <<others, desc, orig, init_us, events, hist, calls, statVars>>

\* ReleaseRetry leaving the dropped client as it is (its lease not ended
\* before the next acquisition).
ReleaseRetryKeep(t) ==
  LET p == PoolOf(desc[t].tag)
  IN /\ pc[t] = "deleterRetry"
     /\ mu' = [mu EXCEPT ![p] = NoThread]
     /\ c' = [c EXCEPT ![t] = NoClient]
     /\ orig' = [orig EXCEPT ![t] = <<"", "">>]
     /\ pc' = [pc EXCEPT ![t] = "acquire"]
     /\ UNCHANGED <<clients, sess, others, desc, init_us, events, hist, calls,
                    statVars>>

\* At the end of the loop body (line 225): the deleter's body (lines 72-76)
\* under mu_, mu_ given up, and the loop goes round to line 186.
ReleaseRetry(t) ==
  LET p == PoolOf(desc[t].tag)
  IN /\ pc[t] = "deleterRetry"
     /\ Deleter(p, c[t])
     /\ mu' = [mu EXCEPT ![p] = NoThread]
     /\ c' = [c EXCEPT ![t] = NoClient]
     /\ orig' = [orig EXCEPT ![t] = <<"", "">>]
     /\ pc' = [pc EXCEPT ![t] = "acquire"]
     /\ UNCHANGED <<others, desc, init_us, events, hist, calls, statVars>>

\* A caller the model does not follow ends its lease of a client of the
\* default pool: the same deleter, from taking mu_ to giving it up.
OtherRelease ==
  /\ mu["defaultPool"] = NoThread
  /\ \E s \in others :
       /\ Deleter("defaultPool", s)
       /\ others' = others \ {s}
  /\ UNCHANGED <<mu, pc, desc, c, orig, init_us, events, hist, calls, statVars>>

\* ------------------------------------------------------------ the inputs
\* Packed argument buffers with their length tables.
Foobarbaz == <<"f", "o", "o", "b", "a", "r", "b", "a", "z">>
Packed == {<<<<>>, <<>>>>, <<Foobarbaz, <<3, 3, 3>>>>,
           <<<<"a", "b", "c">>, <<0, 1, 2>>>>}

\* <<user, passwd>> of a call: none, both, and only one of the two.
Credentials ==
  {<<"", "">>, <<"alice", "secret">>, <<"alice", "">>, <<"", "secret">>}

\* The calls of the threads that run at the same time: with and without
\* an override, on either pool.
Descriptors ==
  {Descriptor("info", cr[1], cr[2], <<>>, <<>>, t, tag) :
     cr \in {<<"", "">>, <<"alice", "secret">>}, t \in Threads, tag \in {FALSE}}

\* The calls of a thread that runs alone: every command, credential pair and
\* packed buffer.
AllDescriptors ==
  {Descriptor(cmd, cr[1], cr[2], pk[1], pk[2], t, tag) :
     cmd \in {"info", "sync", "print"}, cr \in Credentials, pk \in Packed,
     t \in Threads, tag \in BOOLEAN}

\* Microseconds (stop - start).count() / 1000 may give.
ElapsedMicros == {0, 7}

\* ------------------------------------------------------ the specification
\* The pools before the calls the model follows: n idle clients in the
\* default pool and m more leased to other callers (every client came from a
\* successful Init); the tag pool empty.
InitPools(n, m) ==
  /\ sess = [i \in 1..(n + m) |-> NewClient("defaultPool")]
  /\ clients = [p \in PoolNames |->
                  IF p = "defaultPool" THEN [i \in 1..n |-> i] ELSE <<>>]
  /\ others = (n + 1)..(n + m)
  /\ mu = [p \in PoolNames |-> NoThread]

InitThreads ==
  /\ pc = [t \in Threads |-> "idle"]
  /\ desc = [t \in Threads |-> NoDescriptor]
  /\ c = [t \in Threads |-> NoClient]
  /\ orig = [t \in Threads |-> <<"", "">>]
  /\ init_us = [t \in Threads |-> 0]
  /\ events = [t \in Threads |-> <<>>]
  /\ hist = [t \in Threads |-> NoHist]
  /\ calls = [t \in Threads |-> 0]

\* The process after start-up: both pools empty, no call made.
Init ==
  /\ InitPools(0, 0)
  /\ InitThreads
  /\ statIn = <<>>
  /\ statOut = <<>>

\* The default pool full, while other callers still hold leases.
InitFull ==
  /\ InitPools(kMaxClients, MaxOthers)
  /\ InitThreads
  /\ statIn = <<>>
  /\ statOut = <<>>

\* What a specification lets the callers and the backend do: the calls made
\* (D), the microseconds an Init may take (E), the number of callbacks after
\* which a connection may drop (K), the errors Final may leave (F).
Env(D, E, K, F) == [D |-> D, E |-> E, K |-> K, F |-> F]

Step(t, env) ==
  \/ Call(t, env.D)
  \/ ClientPop(t)
  \/ ClientEmpty(t)
  \/ ClientInitOk(t, env.E)
  \/ ClientInitFail(t)
  \/ Setup(t)
  \/ RunOk(t)
  \/ RunDrop(t, env.K)
  \/ NotDropped(t)
  \/ Dropped(t, env.F)
  \/ DeleterLock(t)
  \/ ReleaseReturn(t)
  \/ ReleaseRetry(t)

\* Threads calling p4runcb at the same time; a dropped connection drops
\* before the first callback and its Final leaves an error.
Concurrent == Env(Descriptors, {7}, {0}, {ErrorOf(FinalErrorText)})

\* The same without the override of the credentials.
ConcurrentPlain ==
  Env({d \in Descriptors : ~HasOverride(d)}, {7}, {0}, {ErrorOf(FinalErrorText)})

Next == \E t \in Threads : Step(t, Concurrent)

Spec == Init /\ [][Next]_vars

\* The same threads without overrides, on pools that start empty or on a
\* full default pool, with the other callers' leases ending at any time.
NextFull ==
  \/ \E t \in Threads : Step(t, ConcurrentPlain)
  \/ OtherRelease

SpecFull == (Init \/ InitFull) /\ [][NextFull]_vars

\* One thread calling p4runcb, with every input and every backend behaviour.
NextOne ==
  Step(1, Env(AllDescriptors, ElapsedMicros, 0..2,
              {NoError, ErrorOf(FinalErrorText)}))

SpecOne == Init /\ [][NextOne]_vars

\* A StrDict handed to OutputStat: pairs of a key and a value.
StatKeys == {"func", v_specFormatted, "client", "depotFile"}
StatValues == {"x", "y", "z"}
RECURSIVE StatDicts(_)
StatDicts(n) ==
  IF n = 0 THEN {<<>>}
  ELSE LET shorter == StatDicts(n - 1)
       IN shorter \cup {Append(d, <<k, v>>) :
                          d \in {x \in shorter : Len(x) = n - 1},
                          k \in StatKeys, v \in StatValues}

\* The backend hands one StrDict to the ClientUser of call 1.
\* Threads 1 and 2 calling p4runcb with plain commands, Final succeeding or
\* failing, under a fair scheduler: a thread that can take a step of its
\* call (a thread waiting for mu_ can take none while the other holds it)
\* eventually takes one.
LiveEnv ==
  Env({d \in Descriptors : ~HasOverride(d)}, {7}, {0},
      {NoError, ErrorOf(FinalErrorText)})
NextLive == Step(1, LiveEnv) \/ Step(2, LiveEnv)
Fairness == WF_vars(Step(1, LiveEnv)) /\ WF_vars(Step(2, LiveEnv))
SpecLive == Init /\ [][NextLive]_vars /\ Fairness

\* Threads 1 and 2 calling p4runcb with plain commands on either pool.
TagEnv ==
  Env({Descriptor("info", "", "", <<>>, <<>>, t, tag) :
         t \in Threads, tag \in BOOLEAN},
      {7}, {0}, {ErrorOf(FinalErrorText)})
NextTag == Step(1, TagEnv) \/ Step(2, TagEnv)
SpecTag == Init /\ [][NextTag]_vars

InitStat ==
  /\ InitPools(0, 0)
  /\ InitThreads
  /\ statIn \in StatDicts(MaxPairs)
  /\ statOut = <<>>

OnStat ==
  /\ statOut = <<>>
  /\ statOut' = statOut \o Dispatch(1, Callback("OutputStat", 0, "", statIn))
  /\ UNCHANGED <<poolVars, pc, desc, c, orig, init_us, events, hist, calls, statIn>>

SpecStat == InitStat /\ [][OnStat]_vars

\* ------------------------------------------------------------ the claims
IdleSet(p) == {clients[p][i] : i \in DOMAIN clients[p]}

\* C1: whatever the interleaving of the acquires and releases of the
\* threads and of the other callers, no pool's idle collection holds more
\* than kMaxClients (16) clients.
C1_IdleWithinCapacity ==
  \A p \in PoolNames : Len(clients[p]) <= kMaxClients

\* C1's case: the pool holds kMaxClients idle clients, every lease has ended
\* and a healthy client was deleted for want of room.
C1_Witness ==
  /\ Len(clients["defaultPool"]) = kMaxClients
  /\ others = {}
  /\ \A t \in Threads : c[t] = NoClient
  /\ \E i \in DOMAIN sess : sess[i].state = "deleted" /\ ~sess[i].dropped

\* C2: a client is leased to at most one caller: no two threads hold the
\* same client, a leased client is in no idle collection and is not held by
\* another caller, and no idle collection holds a client twice.
C2_LeaseExclusive ==
  /\ \A t, u \in Threads :
       (t # u /\ c[t] # NoClient /\ c[u] # NoClient) => c[t] # c[u]
  /\ \A t \in Threads :
       c[t] # NoClient =>
         /\ \A p \in PoolNames : c[t] \notin IdleSet(p)
         /\ c[t] \notin others
         /\ sess[c[t]].state = "live"
  /\ \A p \in PoolNames : Cardinality(IdleSet(p)) = Len(clients[p])
  /\ \A p \in PoolNames : IdleSet(p) \cap others = {}

\* C2's case: two threads hold leases at once, both of clients popped from
\* the idle collection.
C2_Witness ==
  \E t, u \in Threads :
    /\ t # u
    /\ c[t] # NoClient /\ ~hist[t].fresh
    /\ c[u] # NoClient /\ ~hist[u].fresh

\* C3: every client in an idle collection has Dropped() false (and has not
\* been deleted).
C3_IdleNeverDropped ==
  \A p \in PoolNames : \A i \in DOMAIN clients[p] :
    ~sess[clients[p][i]].dropped /\ sess[clients[p][i]].state = "live"

\* C3's case: a dropped client's lease has ended, and a client is idle.
C3_Witness ==
  /\ \E i \in DOMAIN sess : sess[i].dropped /\ sess[i].state = "deleted"
  /\ \E p \in PoolNames : clients[p] # <<>>

\* The release decision for client s of pool p, read off a step.
ReleasedAsClaimed(p, s) ==
  IF ~sess[s].dropped /\ Len(clients[p]) < kMaxClients
  THEN clients'[p] = Append(clients[p], s) /\ sess'[s].state = "live"
  ELSE clients'[p] = clients[p] /\ sess'[s].state = "deleted"

\* C10: when a lease ends, the client goes to the back of its pool's idle
\* collection if and only if it is not dropped and the collection holds
\* fewer than kMaxClients clients; otherwise it is destroyed and the idle
\* collection is left as it was.
C10_ReleaseDecision ==
  [][ /\ \A t \in Threads :
           (c[t] # NoClient /\ c'[t] = NoClient) =>
             ReleasedAsClaimed(PoolOf(desc[t].tag), c[t])
      /\ \A s \in others \ others' : ReleasedAsClaimed("defaultPool", s)
    ]_vars

\* C10's case: a healthy client was destroyed for want of room, a dropped
\* one was destroyed, and a call that ended well gave its client back.
C10_Witness ==
  /\ \E i \in DOMAIN sess : sess[i].state = "deleted" /\ ~sess[i].dropped
  /\ \E i \in DOMAIN sess : sess[i].state = "deleted" /\ sess[i].dropped
  /\ \E t \in Threads :
       /\ pc[t] = "idle" /\ hist[t].outcome = "ok"
       /\ hist[t].last \in IdleSet("defaultPool")

\* The events of a log that are retry notices, and those that are not.
IsRetry(e) == e.type = "retry"
IsOutput(e) == e.type # "retry"
RetryCount(log) == Len(SelectSeq(log, IsRetry))

\* C4 (as claimed): once a drop has been handled, the caller has seen one
\* retry notice for each connection its call has lost, whether or not Final
\* left an error.
C4_OneNoticePerDrop ==
  \A t \in Threads :
    pc[t] # "ran" => RetryCount(events[t]) = hist[t].drops

\* C5 (as claimed): a call that lost one or more connections and then ended
\* well has shown the caller, retry notices apart, exactly the events of one
\* run of the command on a connection that stays up.
C5_OutcomeAsFresh ==
  \A t \in Threads :
    (pc[t] = "idle" /\ hist[t].outcome = "ok" /\ hist[t].drops >= 1) =>
      SelectSeq(events[t], IsOutput)
        = DispatchAll(desc[t].cbid, BackendOutput(desc[t].cmd, desc[t].tag))

\* C6: no idle client carries the credentials of an override: every idle
\* client has the user and password of its Init, and a client whose call
\* overrode them is given back (pc "release") with the user and password it
\* had when its lease began.
C6_NoCredentialLeak ==
  /\ \A p \in PoolNames : \A i \in DOMAIN clients[p] :
       /\ sess[clients[p][i]].user = EnvUser
       /\ sess[clients[p][i]].passwd = EnvPasswd
  /\ \A t \in Threads :
       pc[t] = "release" =>
         <<sess[c[t]].user, sess[c[t]].passwd>> = hist[t].creds

\* C6's case: a call with an override has ended well and its client, idle
\* meanwhile, is leased again to another thread.
C6_Witness ==
  \E t, u \in Threads :
    /\ t # u
    /\ pc[u] = "idle" /\ hist[u].outcome = "ok" /\ HasOverride(desc[u])
    /\ c[t] = hist[u].last
    /\ pc[t] = "leased"

\* The error event of a failed acquisition.
IsAcqError(e) ==
  e.type = "error" /\ e.vals = <<"error initializing client: ", InitErrorText>>

\* C7: a call that has reported a failed acquisition has reported it once,
\* as its last event, and has returned holding no client; if it lost no
\* connection before, that error is its only event (no retry notice).
C7_AcquisitionFailureTerminal ==
  \A t \in Threads :
    Len(SelectSeq(events[t], IsAcqError)) >= 1 =>
      /\ pc[t] = "idle"
      /\ c[t] = NoClient
      /\ Len(SelectSeq(events[t], IsAcqError)) = 1
      /\ IsAcqError(events[t][Len(events[t])])
      /\ hist[t].acqs = hist[t].drops + 1
      /\ hist[t].drops = 0 =>
           events[t] = HandleErrorMsg(desc[t].cbid,
                         <<"error initializing client: ", InitErrorText>>)

\* C7's case: Init failed on the attempt that followed a drop.
C7_Witness ==
  \E t \in Threads :
    /\ hist[t].drops >= 1
    /\ events[t] # <<>>
    /\ IsAcqError(events[t][Len(events[t])])

\* The sum of the first k lengths of a length table.
RECURSIVE SumLengths(_, _)
SumLengths(argv, k) == IF k = 0 THEN 0 ELSE argv[k] + SumLengths(argv, k - 1)

\* C8: on every attempt, when the command is about to run, the leased
\* client holds exactly argc unnamed variables, the i-th being the slice of
\* joined that starts at the sum of the lengths before it and has the i-th
\* length.
C8_ArgumentsUnpacked ==
  \A t \in Threads :
    pc[t] = "run" =>
      LET d == desc[t]
          got == sess[c[t]].vars
      IN /\ Len(got) = d.argc
         /\ \A i \in 1..d.argc :
              got[i] = [j \in 1..d.argv[i] |->
                          d.joined[SumLengths(d.argv, i - 1) + j]]

\* C8's case: "foobarbaz" with lengths 3, 3, 3 on a retry: foo, bar, baz.
C8_Witness ==
  \E t \in Threads :
    /\ pc[t] = "run"
    /\ hist[t].drops >= 1
    /\ desc[t].joined = Foobarbaz
    /\ sess[c[t]].vars = <<<<"f", "o", "o">>, <<"b", "a", "r">>, <<"b", "a", "z">>>>

\* The pairs OutputStat is to forward.
Forwarded(pair) == pair[1] \notin {"func", "specFormatted"}

\* C9: OutputStat forwards one stat event for the record, holding the pairs
\* of the record in their order except those whose key is "func" or
\* "specFormatted", its keys and values of equal length and count that length.
C9_StatForwarded ==
  statOut # <<>> =>
    LET kept == SelectSeq(statIn, Forwarded)
        e == statOut[1]
    IN /\ Len(statOut) = 1
       /\ e.type = "stat"
       /\ e.keys = [i \in 1..Len(kept) |-> kept[i][1]]
       /\ e.vals = [i \in 1..Len(kept) |-> kept[i][2]]
       /\ Len(e.keys) = Len(e.vals)
       /\ e.count = Len(e.keys)

\* C9's case: func x, specFormatted y, client z forwards client z alone.
C9_Witness ==
  /\ statIn = <<<<"func", "x">>, <<"specFormatted", "y">>, <<"client", "z">>>>
  /\ statOut # <<>>
  /\ statOut[1].keys = <<"client">>
  /\ statOut[1].vals = <<"z">>

C12_ErrorNotRetried ==
  \A t \in Threads :
    hist[t].drops = 0 =>
      /\ hist[t].acqs <= 1
      /\ hist[t].runs <= 1
      /\ pc[t] = "idle" /\ hist[t].outcome = "ok" =>
           /\ hist[t].acqs = 1
           /\ hist[t].runs = 1
           /\ c[t] = NoClient
           /\ events[t] =
                DispatchAll(desc[t].cbid, BackendOutput(desc[t].cmd, desc[t].tag))
           /\ \/ hist[t].last \in IdleSet(PoolOf(desc[t].tag))
              \/ sess[hist[t].last].state = "deleted"

\* C12's case: a call whose command reported an error on a connection that
\* stayed up has returned.
C12_Witness ==
  \E t \in Threads :
    /\ pc[t] = "idle"
    /\ hist[t].outcome = "ok"
    /\ hist[t].drops = 0
    /\ \E i \in DOMAIN events[t] : events[t][i].type = "error"

RECURSIVE SumSeq(_)
SumSeq(q) == IF q = <<>> THEN 0 ELSE Head(q) + SumSeq(Tail(q))

\* C13: the value p4runcb returns (init_us when the call has returned) is
\* the sum of the elapsed times of the clients the call constructed with a
\* successful Init: 0 when every acquisition was a pop or a failed Init, and
\* non-zero only if a client was constructed.
C13_ReturnsConstructionTime ==
  \A t \in Threads :
    pc[t] = "idle" =>
      /\ init_us[t] = SumSeq(hist[t].built)
      /\ hist[t].built = <<>> => init_us[t] = 0
      /\ init_us[t] # 0 => hist[t].built # <<>>

\* C13's case: a call that constructed two clients (one before a drop, one
\* for the retry) has returned the sum of two non-zero elapsed times.
C13_Witness ==
  \E t \in Threads :
    /\ pc[t] = "idle"
    /\ hist[t].outcome = "ok"
    /\ Len(hist[t].built) = 2
    /\ init_us[t] = hist[t].built[1] + hist[t].built[2]
    /\ hist[t].built[1] # 0 /\ hist[t].built[2] # 0

\* C14 (as claimed): the client a call leases for a retry, after one of its
\* connections dropped, is newly constructed, never popped from the idle
\* collection.
C14_RetryIsFresh ==
  \A t \in Threads :
    pc[t] = "leased" /\ hist[t].drops >= 1 => hist[t].fresh

\* C14 (amended): the client a call leases for a retry comes from Pool::Client
\* as the first one did: the front of the idle collection, popped, or,
\* the collection having been found empty, a newly constructed client; it is
\* live and has never dropped.
C14_RetryFromPool ==
  [][\A t \in Threads :
       hist[t].drops >= 1 /\ c[t] = NoClient /\ c'[t] # NoClient =>
         LET p == PoolOf(desc[t].tag)
             s == c'[t]
         IN /\ sess'[s].state = "live"
            /\ ~sess'[s].dropped
            /\ ~sess'[s].final
            /\ \/ /\ clients[p] # <<>>
                  /\ s = Head(clients[p])
                  /\ clients'[p] = Tail(clients[p])
                  /\ ~hist'[t].fresh
               \/ /\ pc[t] = "init"
                  /\ s = Len(sess) + 1
                  /\ hist'[t].fresh]_vars

\* C14's case: a call retrying after a drop holds a client popped from the
\* idle collection.
C14_Witness ==
  \E t \in Threads :
    /\ pc[t] = "leased"
    /\ hist[t].drops >= 1
    /\ ~hist[t].fresh
    /\ ~sess[c[t]].dropped

\* A step of thread t that deletes the client t leases.
TearsDown(t) ==
  /\ c[t] # NoClient
  /\ sess[c[t]].state = "live"
  /\ sess'[c[t]].state = "deleted"

\* C15 (as claimed): a thread takes no step that constructs and initialises
\* a client (pc "init"), sets a command up and runs it (pc "leased", "run"),
\* restores or finalizes (pc "ran") or tears a client down while it holds the
\* mutex of a pool, so that no such step can keep another thread from the
\* idle collection.
C15_MutexOnlyAroundQueue ==
  [][\A t \in Threads :
       \/ pc[t] \in {"init", "leased", "run", "ran"} /\ pc'[t] # pc[t]
       \/ TearsDown(t)
       => \A p \in PoolNames : mu[p] # t]_vars

\* C16 (as claimed): when a thread discards a client that dropped, the client
\* has been finalized and the retry notice of that drop has been emitted
\* (one notice for each drop of the call so far), and the client is deleted,
\* not queued; when a thread then acquires a lease, every client its call
\* leased before is finalized and deleted, and the client it gets has not
\* dropped.
C16_DropPathOrder ==
  [][\A t \in Threads :
       /\ TearsDown(t) /\ sess[c[t]].dropped =>
            /\ sess[c[t]].final
            /\ RetryCount(events[t]) = hist[t].drops
            /\ \A p \in PoolNames : clients'[p] = clients[p]
       /\ c[t] = NoClient /\ c'[t] # NoClient =>
            /\ ~sess'[c'[t]].dropped
            /\ \A s \in hist[t].leased :
                 /\ sess[s].final
                 /\ sess[s].state = "deleted"
                 /\ s # c'[t]]_vars

\* C17: the step that handles a drop leads to the discard of the client
\* whether or not Final left an error, with the call's arguments unchanged;
\* it adds nothing to the caller's events but, when Final left an error, one
\* retry notice carrying that error's text; the discard leads back to the
\* acquisition; no error event ever carries the text of a Final error; and a
\* call that returns has made one acquisition more than it lost connections.
C17_FinalizeFailureNonFatal ==
  [][\A t \in Threads :
       /\ pc[t] = "ran" /\ sess[c[t]].dropped /\ pc'[t] # pc[t] =>
            /\ pc'[t] = "discard"
            /\ desc'[t] = desc[t]
            /\ \/ /\ hist'[t].finalErrs = hist[t].finalErrs
                  /\ events'[t] = events[t]
               \/ /\ hist'[t].finalErrs = hist[t].finalErrs + 1
                  /\ events'[t] = Append(events[t],
                       Event("retry", desc[t].cbid, 0,
                             <<"p4 connection dropped: ">>, <<FinalErrorText>>))
       /\ pc[t] \in {"discard", "deleterRetry"} /\ pc'[t] # pc[t] =>
            /\ pc'[t] \in {"deleterRetry", "acquire"}
            /\ desc'[t] = desc[t]
       /\ \A i \in DOMAIN events'[t] :
            events'[t][i].type = "error" => events'[t][i].vals # <<FinalErrorText>>
       /\ pc[t] # "idle" /\ pc'[t] = "idle" =>
            hist'[t].acqs = hist'[t].drops + 1]_vars

\* C17's case: a call has returned after the command ran, having lost a
\* connection whose Final left an error.
C17_Witness ==
  \E t \in Threads :
    /\ pc[t] = "idle"
    /\ hist[t].outcome = "ok"
    /\ hist[t].finalErrs >= 1
    /\ hist[t].runs = hist[t].drops + 1
    /\ RetryCount(events[t]) >= 1

\* C18: every step changes the idle collection of a pool either by removing
\* its front entry, which is the client the acquiring thread then holds, or
\* by appending the released client at its back (the entries in between keep
\* their order), so that clients are handed out in the order of their return.
C18_IdleFifo ==
  [][\A p \in PoolNames :
       \/ clients'[p] = clients[p]
       \/ /\ clients[p] # <<>>
          /\ clients'[p] = Tail(clients[p])
          /\ \E t \in Threads :
               /\ c[t] = NoClient
               /\ c'[t] = Head(clients[p])
       \/ /\ Len(clients'[p]) = Len(clients[p]) + 1
          /\ SubSeq(clients'[p], 1, Len(clients[p])) = clients[p]
          /\ \/ \E t \in Threads :
                  /\ c[t] = clients'[p][Len(clients'[p])]
                  /\ c'[t] = NoClient
             \/ clients'[p][Len(clients'[p])] \in others \ others']_vars

\* C18's case: of a collection of several idle clients the front one is
\* leased to a thread while a client returned since sits at the back, behind
\* the clients that were idle before it.
C18_Witness ==
  \E t \in Threads :
    LET q == clients[PoolOf(desc[t].tag)]
    IN /\ c[t] # NoClient
       /\ ~hist[t].fresh
       /\ Len(q) >= 2
       /\ \A i \in DOMAIN q : c[t] < q[i]
       /\ \A i \in 1..(Len(q) - 1) : q[i] < q[Len(q)]
       /\ q[Len(q)] > kMaxClients

\* C19: when a call returns (after the command ran, or after a failed
\* acquisition, with or without retries before), the caller holds no client
\* and no pool mutex, and every client the call leased is, at that moment,
\* idle in the pool it was acquired from or deleted; a caller that is not in
\* a call holds no client.
C19_LeaseReleasedOnReturn ==
  [][\A t \in Threads :
       /\ pc'[t] = "idle" => c'[t] = NoClient
       /\ pc[t] # "idle" /\ pc'[t] = "idle" =>
            LET q == clients'[PoolOf(desc[t].tag)]
            IN /\ \A p \in PoolNames : mu'[p] # t
               /\ \A s \in hist'[t].leased :
                    \/ sess'[s].state = "deleted"
                    \/ /\ sess'[s].state = "live"
                       /\ sess'[s].protocol = NewClient(PoolOf(desc[t].tag)).protocol
                       /\ \E i \in DOMAIN q : q[i] = s]_vars

\* C19's case: a call has returned after its command ran on a retry (two
\* clients leased: the dropped one deleted, the other idle) while another
\* caller is still in its call.
C19_Witness ==
  \E t, u \in Threads :
    /\ pc[t] = "idle"
    /\ c[t] = NoClient
    /\ hist[t].outcome = "ok"
    /\ Cardinality(hist[t].leased) = 2
    /\ \E s \in hist[t].leased : sess[s].state = "deleted"
    /\ \E s \in hist[t].leased : s \in IdleSet(PoolOf(desc[t].tag))
    /\ pc[u] # "idle"

\* C20: under fair scheduling every call, of which only finitely many
\* connections drop (TotalDrops stays within MaxDrops), eventually returns,
\* retries included; and a call whose acquisition failed has returned with
\* that failure (it makes no further attempt).
C20_RunReturns ==
  /\ \A t \in Threads : (pc[t] # "idle") ~> (pc[t] = "idle")
  /\ [](\A t \in Threads : hist[t].outcome = "acqfail" => pc[t] = "idle")

\* C20's case: a call that was retried as often as connections may drop has
\* returned after its command ran, and another has returned after a failed
\* acquisition.
C20_Witness ==
  \E t, u \in Threads :
    /\ pc[t] = "idle" /\ pc[u] = "idle"
    /\ hist[t].outcome = "ok"
    /\ hist[t].drops = MaxDrops
    /\ hist[t].acqs = MaxDrops + 1
    /\ hist[u].outcome = "acqfail"

\* The <<user, password>> of the client thread t leases.
CredsOf(t) == <<sess[c[t]].user, sess[c[t]].passwd>>

\* C21: while a call whose user or password is empty holds a client, the
\* client has the user and password it was leased with and nothing was
\* captured from it (orig stays empty); the command of a call with both
\* non-empty runs on a client that has the call's user and password, the
\* leased ones being captured; and the client of a returned call whose user
\* or password is empty still has the credentials it was leased with.
C21_OverrideOnlyWhenBoth ==
  \A t \in Threads :
    /\ c[t] # NoClient /\ ~(desc[t].user # "" /\ desc[t].passwd # "") =>
         /\ CredsOf(t) = hist[t].creds
         /\ orig[t] = <<"", "">>
    /\ c[t] # NoClient /\ desc[t].user # "" /\ desc[t].passwd # ""
         /\ pc[t] = "run" =>
         /\ CredsOf(t) = <<desc[t].user, desc[t].passwd>>
         /\ orig[t] = hist[t].creds
    /\ pc[t] = "idle" /\ hist[t].outcome = "ok"
         /\ (desc[t].user = "" \/ desc[t].passwd = "") =>
         <<sess[hist[t].last].user, sess[hist[t].last].passwd>> = hist[t].creds

\* C21's case: a call with a password and no user has returned after its
\* command ran, and its client is idle with the password of its lease.
C21_Witness ==
  \E t \in Threads :
    /\ desc[t].user = "" /\ desc[t].passwd # ""
    /\ pc[t] = "idle"
    /\ hist[t].outcome = "ok"
    /\ hist[t].last \in IdleSet(PoolOf(desc[t].tag))
    /\ sess[hist[t].last].passwd = EnvPasswd

\* Client s was initialised with the tag protocol.
IsTagged(s) == sess[s].protocol = "tag"

\* C22: the idle clients of tagPool are tagged and those of defaultPool are
\* not, and the client a call holds (to set up, run, finalize or release) is
\* tagged exactly when the call's tag argument is true.
C22_PoolVariantIsolation ==
  /\ \A p \in PoolNames : \A i \in DOMAIN clients[p] :
       IsTagged(clients[p][i]) <=> (p = "tagPool")
  /\ \A t \in Threads :
       c[t] # NoClient => (IsTagged(c[t]) <=> desc[t].tag)

\* C22's case: a tagged call has returned and left its client idle in
\* tagPool while a plain call, for which defaultPool had no idle client, runs
\* its command on a client it constructed.
C22_Witness ==
  \E t, u \in Threads :
    /\ desc[t].tag /\ pc[t] = "idle" /\ hist[t].outcome = "ok"
    /\ clients["tagPool"] # <<>>
    /\ ~desc[u].tag /\ pc[u] = "run"
    /\ hist[u].fresh
    /\ hist[u].last > hist[t].last

\* The clients of pool p that are not deleted.
LiveOf(p) ==
  {s \in DOMAIN sess :
     sess[s].state = "live" /\ ((sess[s].protocol = "tag") <=> (p = "tagPool"))}

\* The calls in flight on pool p: those of the threads and, on the default
\* pool, those of the other callers (each holds a lease).
InFlight(p) ==
  Cardinality({t \in Threads : pc[t] # "idle" /\ PoolOf(desc[t].tag) = p})
    + (IF p = "defaultPool" THEN Cardinality(others) ELSE 0)

\* C23: of the clients a call in flight has leased, none but the one it holds
\* now is live outside the idle collection, and no pool has more live clients
\* (idle or leased) than kMaxClients plus the calls in flight on it.
C23_LiveWithinCapacityPlusCalls ==
  /\ \A t \in Threads :
       pc[t] # "idle" =>
         \A s \in hist[t].leased :
           \/ s = c[t]
           \/ sess[s].state = "deleted"
           \/ s \in IdleSet(PoolOf(desc[t].tag))
  /\ \A p \in PoolNames : Cardinality(LiveOf(p)) <= kMaxClients + InFlight(p)

\* C23's case: the default pool holds kMaxClients idle clients while a call
\* in flight holds one more, so that the live clients are as many as the
\* bound allows.
C23_Witness ==
  /\ Len(clients["defaultPool"]) = kMaxClients
  /\ \E t \in Threads : c[t] # NoClient /\ sess[c[t]].state = "live"
  /\ Cardinality(LiveOf("defaultPool")) = kMaxClients + InFlight("defaultPool")

====
